---- MODULE Spec2Model ----
(***************************************************************************)
(* Model of the LessWrong API client (src/src/lib.rs): the two public      *)
(* operations get_post and get_comments, the shared try_get_json           *)
(* classification of the HTTP outcome, and the response mappers.           *)
(*                                                                         *)
(* The client holds no state between calls, so a behaviour is one call:    *)
(* Init draws the operation and the upstream reply, and the action of the  *)
(* operation computes what the call hands back to the caller.              *)
(***************************************************************************)
EXTENDS Integers, Sequences, FiniteSets, TLC

VARIABLES op, reply, result, pc

vars == <<op, reply, result, pc>>

(***************************************************************************)
(* Bounds.                                                                 *)
(***************************************************************************)
\* longest results list of a comments reply
MaxResults == 2
\* how many fields of a results list may differ from a well-formed comment
MaxDeviations == 2

(***************************************************************************)
(* Option<T>: None is the empty tuple, Some(v) the one-element tuple.      *)
(***************************************************************************)
None == <<>>
Some(v) == <<v>>
is_some(o) == o # <<>>
unwrap(o) == o[1]
Opt(S) == {None} \cup {Some(v) : v \in S}

(***************************************************************************)
(* Result<T, Error>, and the abort of the call by a panic.                 *)
(***************************************************************************)
Ok(v) == [tag |-> "Ok", val |-> v]
Err(e) == [tag |-> "Err", val |-> e]
Panic(msg) == [tag |-> "Panic", val |-> msg]

\* enum Error
Reqwest(cause) == [kind |-> "Reqwest", detail |-> <<cause>>]
ServerError(status, text) == [kind |-> "ServerError", detail |-> <<status, text>>]
NotFound == [kind |-> "NotFound", detail |-> <<>>]
MalformattedResponse(field) == [kind |-> "MalformattedResponse", detail |-> <<field>>]

(***************************************************************************)
(* Upstream replies.                                                       *)
(***************************************************************************)
\* the user reference nested under a post or a comment
Users == {[display_name |-> d] : d \in Opt({"bob"})}
\* the contents object nested under a post or a comment
Contents == {[markdown |-> m] : m \in Opt({"md"})}

\* the post object of the JSON body; a field that is absent or null is None
RawPosts ==
    [ id : Opt({"p1"}), title : Opt({"T"}), author : Opt({"alice"}),
      user : Opt(Users), posted_at : Opt({"2006"}), slug : Opt({"s"}),
      page_url : Opt({"url"}), base_score : Opt({7}), word_count : Opt({9}),
      contents : Opt(Contents), html_body : Opt({"<p>h</p>"}) ]

\* JSON bodies of the post query
PostJson ==
    {[data |-> None]}
    \cup {[data |-> Some([post |-> None])]}
    \cup {[data |-> Some([post |-> Some([result |-> None])])]}
    \cup {[data |-> Some([post |-> Some([result |-> Some(p)])])] : p \in RawPosts}

\* HTTP status codes of a reply
Statuses == {200, 299, 404, 500}

\* a reply: whether the request got through, the status line, whether the
\* body can be read, and the JSON value of the body (None: not JSON)
BodylessReplies ==
    {[sent |-> FALSE, status |-> 200, readable |-> FALSE, json |-> None]}
    \cup {[sent |-> TRUE, status |-> s, readable |-> FALSE, json |-> None] : s \in Statuses}

\* the replies whose body is the JSON value json
RepliesWith(json) ==
    {[sent |-> TRUE, status |-> s, readable |-> TRUE, json |-> json] : s \in Statuses}

(***************************************************************************)
(* try_get_json and the typed envelopes.                                   *)
(***************************************************************************)
\* StatusCode::is_success
is_success(status) == status >= 200 /\ status < 300

\* a deserialize_post whose typed post holds the page URL as an Option
deserialize_post_optional_url(json) ==
    IF json = None THEN Err(Reqwest("decode")) ELSE Ok(unwrap(json))

\* response.json::<Response<post_query::ResponseData>>(): every field the
\* mapper reads with ok_or / or / and_then is an Option; page_url is assigned
\* to Post.page_url : String as it is, so the typed post requires it.
deserialize_post(json) ==
    IF json = None THEN Err(Reqwest("decode"))
    ELSE LET body == unwrap(json) IN
         IF ~is_some(body.data) THEN Ok(body)
         ELSE IF ~is_some(unwrap(body.data).post) THEN Ok(body)
         ELSE IF ~is_some(unwrap(unwrap(body.data).post).result) THEN Ok(body)
         ELSE LET p == unwrap(unwrap(unwrap(body.data).post).result) IN
              IF ~is_some(p.page_url) THEN Err(Reqwest("decode"))
              ELSE Ok([data |-> Some([post |-> Some([result |->
                          Some([p EXCEPT !.page_url = unwrap(p.page_url)])])])])

\* response.json::<Response<comments_query::ResponseData>>(): every field of
\* a comment is an Option
deserialize_comments(json) ==
    IF json = None THEN Err(Reqwest("decode"))
    ELSE Ok(unwrap(json))

\* response.json::<T>()
deserialize(T, json) ==
    IF T = "post_query" THEN deserialize_post(json) ELSE deserialize_comments(json)

\* a try_get_json that looks at the status only when the body does not parse
try_get_json_parse_first(T, response) ==
    IF response.readable /\ deserialize(T, response.json).tag = "Ok"
    THEN deserialize(T, response.json)
    ELSE IF ~is_success(response.status)
    THEN LET error_text == IF response.readable
                           THEN <<"body", response.json>>
                           ELSE <<"Error reading response text">>
         IN Err(ServerError(response.status, error_text))
    ELSE Err(Reqwest("decode"))

try_get_json(T, response) ==
    IF ~is_success(response.status)
    THEN LET error_text == IF response.readable
                           THEN <<"body", response.json>>
                           ELSE <<"Error reading response text">>
         IN Err(ServerError(response.status, error_text))
    ELSE IF ~response.readable THEN Err(Reqwest("decode"))
    ELSE deserialize(T, response.json)

\* client.post(..).json(..).send().await?
send(r) == IF r.sent THEN Ok(r) ELSE Err(Reqwest("send"))

(***************************************************************************)
(* get_post                                                                *)
(***************************************************************************)
\* post_data.user.and_then(|u| u.display_name)
display_name_of(user) == IF is_some(user) THEN unwrap(user).display_name ELSE None

\* an or without the fallback
or_no_fallback(a, b) == a

\* a.or(b)
or(a, b) == IF is_some(a) THEN a ELSE b

\* post_fields with the author resolved before the other fields
post_fields_author_first(post_data, contents, username) ==
    << <<"post.author", or(post_data.author, username)>>,
       <<"post.id", post_data.id>>,
       <<"post.title", post_data.title>>,
       <<"post.posted_at", post_data.posted_at>>,
       <<"post.slug", post_data.slug>>,
       <<"post.base_score", post_data.base_score>>,
       <<"post.word_count", post_data.word_count>>,
       <<"post.contents.markdown", contents.markdown>>,
       <<"post.html_body", post_data.html_body>> >>

\* the field expressions of the Post literal that end in ok_or(..)?, in the
\* order the literal writes them, each with the path its error names
post_fields(post_data, contents, username) ==
    << <<"post.id", post_data.id>>,
       <<"post.title", post_data.title>>,
       <<"post.author", or(post_data.author, username)>>,
       <<"post.posted_at", post_data.posted_at>>,
       <<"post.slug", post_data.slug>>,
       <<"post.base_score", post_data.base_score>>,
       <<"post.word_count", post_data.word_count>>,
       <<"post.contents.markdown", contents.markdown>>,
       <<"post.html_body", post_data.html_body>> >>

\* a first_missing that names the parent object of a nested field
first_missing_parent_path(fields) ==
    LET missing == {i \in DOMAIN fields : ~is_some(fields[i][2])}
        path == fields[CHOOSE i \in missing : \A j \in missing : i <= j][1]
    IN
    IF missing = {} THEN None
    ELSE Some(IF path = "post.contents.markdown" THEN "post.contents" ELSE path)

\* the path of the first field expression that is None, if any: the ? of
\* that expression returns from get_post
first_missing(fields) ==
    LET missing == {i \in DOMAIN fields : ~is_some(fields[i][2])} IN
    IF missing = {} THEN None
    ELSE Some(fields[CHOOSE i \in missing : \A j \in missing : i <= j][1])

\* a post_lookup that takes an absent lookup for a schema violation and an
\* absent result for a missing post
post_lookup_swapped(response) ==
    IF ~is_some(response.data) THEN Err(MalformattedResponse("data"))
    ELSE IF ~is_some(unwrap(response.data).post) THEN Err(MalformattedResponse("post"))
    ELSE IF ~is_some(unwrap(unwrap(response.data).post).result) THEN Err(NotFound)
    ELSE Ok(unwrap(unwrap(unwrap(response.data).post).result))

\* response.data.ok_or(..)?.post.ok_or(..)?.result.ok_or(..)?
post_lookup(response) ==
    IF ~is_some(response.data) THEN Err(MalformattedResponse("data"))
    ELSE IF ~is_some(unwrap(response.data).post) THEN Err(NotFound)
    ELSE IF ~is_some(unwrap(unwrap(response.data).post).result)
         THEN Err(MalformattedResponse("post"))
    ELSE Ok(unwrap(unwrap(unwrap(response.data).post).result))

\* the mapper of get_post on the typed envelope
map_post(response) ==
    LET looked_up == post_lookup(response) IN
    IF looked_up.tag = "Err" THEN looked_up
    ELSE LET post_data == looked_up.val IN
         IF ~is_some(post_data.contents) THEN Err(MalformattedResponse("post.contents"))
         ELSE LET contents == unwrap(post_data.contents)
                  username == display_name_of(post_data.user)
                  failed == first_missing(post_fields(post_data, contents, username))
              IN
              IF is_some(failed) THEN Err(MalformattedResponse(unwrap(failed)))
              ELSE Ok([ id |-> unwrap(post_data.id),
                        title |-> unwrap(post_data.title),
                        author |-> unwrap(or(post_data.author, username)),
                        date |-> unwrap(post_data.posted_at),
                        slug |-> unwrap(post_data.slug),
                        page_url |-> post_data.page_url,
                        base_score |-> unwrap(post_data.base_score),
                        word_count |-> unwrap(post_data.word_count),
                        content_markdown |-> unwrap(contents.markdown),
                        content_html |-> unwrap(post_data.html_body) ])

get_post(r) ==
    LET sent == send(r) IN
    IF sent.tag = "Err" THEN sent
    ELSE LET response == try_get_json("post_query", sent.val) IN
         IF response.tag = "Err" THEN response
         ELSE map_post(response.val)

(***************************************************************************)
(* get_comments                                                            *)
(***************************************************************************)
\* a well-formed comment of the results list, with the given id
WellFormed(id) ==
    [ id |-> Some(id), parent_comment_id |-> None, author |-> Some("alice"),
      user |-> Some([display_name |-> Some("bob")]), posted_at |-> Some("2006"),
      page_url |-> Some("url"), base_score |-> Some(7), vote_count |-> Some(3),
      deleted |-> Some(FALSE), html_body |-> Some("<p>h</p>"),
      contents |-> Some([markdown |-> Some("md")]) ]

CommentIds == {"c1", "c2"}

\* the comment objects of the JSON body
RawComments ==
    [ id : Opt(CommentIds), parent_comment_id : Opt({"c1"}), author : Opt({"alice"}),
      user : Opt(Users), posted_at : Opt({"2006"}), page_url : Opt({"url"}),
      base_score : Opt({7}), vote_count : Opt({3}), deleted : Opt(BOOLEAN),
      html_body : Opt({"", "<p>h</p>"}), contents : Opt(Contents) ]

CommentFields ==
    { "parent_comment_id", "author", "user", "posted_at", "page_url", "base_score",
      "vote_count", "deleted", "html_body", "contents" }

\* in how many fields a comment object differs from a well-formed comment
Deviations(c) ==
    Cardinality({f \in CommentFields : c[f] # WellFormed("c1")[f]})
    + (IF is_some(c.id) THEN 0 ELSE 1)

\* the slots of a results list by their number of deviations; a null slot
\* has none
Slots ==
    [k \in 0..MaxDeviations |->
        {Some(c) : c \in {x \in RawComments : Deviations(x) = k}}
        \cup (IF k = 0 THEN {None} ELSE {})]

\* JSON body of the comments query with the results list l
CommentsJson(l) == [data |-> Some([comments |-> Some([results |-> l])])]

\* JSON bodies of the comments query without a results list
CommentsJsonNoList ==
    {[data |-> None], [data |-> Some([comments |-> None])], CommentsJson(None)}

\* HashMap<String, Comment>
EmptyMap == [k \in {} |-> k]
\* an insert that keeps the entry a key already has
insert_if_vacant(m, k, v) ==
    [x \in (DOMAIN m) \cup {k} |-> IF x \in DOMAIN m THEN m[x] ELSE v]

\* HashMap::insert, as collect() applies it to each pair in turn
insert(m, k, v) == [x \in (DOMAIN m) \cup {k} |-> IF x = k THEN v ELSE m[x]]

\* a filter that lets an empty HTML body through
keep_any_html(c) ==
    /\ ~(IF is_some(c.deleted) THEN unwrap(c.deleted) ELSE FALSE)
    /\ is_some(c.html_body)

\* the closure of .filter
keep(c) ==
    /\ ~(IF is_some(c.deleted) THEN unwrap(c.deleted) ELSE FALSE)
    /\ is_some(c.html_body)
    /\ unwrap(c.html_body) # ""

\* the closure of .map: the Comment of a raw entry, or the panic it raises
to_comment(c) ==
    IF ~is_some(c.page_url) THEN Panic("comment page_url should exist")
    ELSE LET page_url == unwrap(c.page_url) IN
    IF ~is_some(c.contents) \/ ~is_some(unwrap(c.contents).markdown)
    THEN Panic("comment contents markdown should exist")
    ELSE LET content_markdown == unwrap(unwrap(c.contents).markdown)
             username == display_name_of(c.user)
         IN
         IF ~is_some(c.id) THEN Panic("comment id should exist")
         ELSE IF ~is_some(c.posted_at) THEN Panic("comment posted_at should exist")
         ELSE IF ~is_some(c.base_score) THEN Panic("comment base_score should exist")
         ELSE IF ~is_some(c.vote_count) THEN Panic("comment vote_count should exist")
         ELSE IF ~is_some(c.html_body) THEN Panic("comment html_body should exist")
         ELSE Ok([ id |-> unwrap(c.id),
                   parent_comment_id |-> c.parent_comment_id,
                   author |-> IF is_some(or(c.author, username))
                              THEN unwrap(or(c.author, username))
                              ELSE "anonymous",
                   posted_at |-> unwrap(c.posted_at),
                   base_score |-> unwrap(c.base_score),
                   vote_count |-> unwrap(c.vote_count),
                   content_html |-> unwrap(c.html_body),
                   content_markdown |-> content_markdown,
                   page_url |-> page_url ])

\* a collect that leaves out a survivor whose closure panics
RECURSIVE collect_skip_panics(_, _, _)
collect_skip_panics(comments_data, i, acc) ==
    IF i > Len(comments_data) THEN Ok(acc)
    ELSE LET slot == comments_data[i] IN
         IF ~is_some(slot) THEN collect_skip_panics(comments_data, i + 1, acc)
         ELSE IF ~keep(unwrap(slot)) THEN collect_skip_panics(comments_data, i + 1, acc)
         ELSE LET item == to_comment(unwrap(slot)) IN
              IF item.tag = "Panic" THEN collect_skip_panics(comments_data, i + 1, acc)
              ELSE collect_skip_panics(comments_data, i + 1,
                                       insert(acc, item.val.id, item.val))

\* a collect that maps every entry before it filters
RECURSIVE collect_map_then_filter(_, _, _)
collect_map_then_filter(comments_data, i, acc) ==
    IF i > Len(comments_data) THEN Ok(acc)
    ELSE LET slot == comments_data[i] IN
         IF ~is_some(slot) THEN collect_map_then_filter(comments_data, i + 1, acc)
         ELSE LET item == to_comment(unwrap(slot)) IN
              IF item.tag = "Panic" THEN item
              ELSE IF ~keep(unwrap(slot))
                   THEN collect_map_then_filter(comments_data, i + 1, acc)
              ELSE collect_map_then_filter(comments_data, i + 1,
                                           insert(acc, item.val.id, item.val))

\* .into_iter().flatten().filter(..).map(..).collect() from slot i on, into
\* the map acc; a panic of the closure ends the call
RECURSIVE collect(_, _, _)
collect(comments_data, i, acc) ==
    IF i > Len(comments_data) THEN Ok(acc)
    ELSE LET slot == comments_data[i] IN
         IF ~is_some(slot) THEN collect(comments_data, i + 1, acc)
         ELSE IF ~keep(unwrap(slot)) THEN collect(comments_data, i + 1, acc)
         ELSE LET item == to_comment(unwrap(slot)) IN
              IF item.tag = "Panic" THEN item
              ELSE collect(comments_data, i + 1, insert(acc, item.val.id, item.val))

\* the mapper of get_comments on the typed envelope
map_comments(response) ==
    IF ~is_some(response.data) THEN Err(MalformattedResponse("data"))
    ELSE IF ~is_some(unwrap(response.data).comments)
         THEN Err(MalformattedResponse("comments"))
    ELSE IF ~is_some(unwrap(unwrap(response.data).comments).results)
         THEN Err(MalformattedResponse("comments.results"))
    ELSE collect(unwrap(unwrap(unwrap(response.data).comments).results), 1, EmptyMap)

get_comments(r) ==
    LET sent == send(r) IN
    IF sent.tag = "Err" THEN sent
    ELSE LET response == try_get_json("comments_query", sent.val) IN
         IF response.tag = "Err" THEN response
         ELSE map_comments(response.val)

(***************************************************************************)
(* The calls.                                                              *)
(***************************************************************************)
Pending == [tag |-> "Pending", val |-> None]

\* the reply carries the results list l extended by n more slots with at most
\* d deviations in all
RECURSIVE DrawResults(_, _, _)
DrawResults(l, n, d) ==
    IF n = 0 THEN reply \in RepliesWith(Some(CommentsJson(Some(l))))
    ELSE \E k \in 0..d : \E s \in Slots[k] : DrawResults(Append(l, s), n - 1, d - k)

Init ==
    /\ pc = "called"
    /\ result = Pending
    /\ \/ /\ op = "get_post"
          /\ \/ reply \in BodylessReplies
             \/ \E j \in Opt(PostJson) : reply \in RepliesWith(j)
       \/ /\ op = "get_comments"
          /\ \/ reply \in BodylessReplies
             \/ \E j \in Opt(CommentsJsonNoList) : reply \in RepliesWith(j)
             \/ \E n \in 0..MaxResults : DrawResults(<<>>, n, MaxDeviations)

GetPost ==
    /\ pc = "called"
    /\ op = "get_post"
    /\ result' = get_post(reply)
    /\ pc' = "returned"
    /\ UNCHANGED <<op, reply>>

GetComments ==
    /\ pc = "called"
    /\ op = "get_comments"
    /\ result' = get_comments(reply)
    /\ pc' = "returned"
    /\ UNCHANGED <<op, reply>>

Next == GetPost \/ GetComments

Spec == Init /\ [][Next]_vars

(***************************************************************************)
(* What the claims speak about: the reply as upstream sent it, read        *)
(* without the client's code.                                              *)
(***************************************************************************)
Returned == pc = "returned"

\* the call ended in the error e
Failed(e) ==
    /\ result.tag = "Err"
    /\ result.val.kind = e.kind
    /\ result.val.detail = e.detail

SuccessStatus == reply.status \in 200..299

\* the request got through, the status is a success and the body is JSON
Delivered == reply.sent /\ SuccessStatus /\ reply.readable /\ reply.json # None

HasData == Delivered /\ unwrap(reply.json).data # None
HasLookup == op = "get_post" /\ HasData /\ unwrap(unwrap(reply.json).data).post # None
HasPost == HasLookup /\ unwrap(unwrap(unwrap(reply.json).data).post).result # None
RawPost == unwrap(unwrap(unwrap(unwrap(reply.json).data).post).result)

MandatoryPaths ==
    { "post.contents", "post.id", "post.title", "post.author", "post.posted_at",
      "post.slug", "post.base_score", "post.word_count", "post.contents.markdown",
      "post.html_body" }

\* the raw post p lacks the mandatory field of that path
Lacks(p, path) ==
    CASE path = "post.contents" -> p.contents = None
      [] path = "post.id" -> p.id = None
      [] path = "post.title" -> p.title = None
      [] path = "post.author" ->
            p.author = None /\ (p.user = None \/ unwrap(p.user).display_name = None)
      [] path = "post.posted_at" -> p.posted_at = None
      [] path = "post.slug" -> p.slug = None
      [] path = "post.base_score" -> p.base_score = None
      [] path = "post.word_count" -> p.word_count = None
      [] path = "post.contents.markdown" ->
            p.contents # None /\ unwrap(p.contents).markdown = None
      [] path = "post.html_body" -> p.html_body = None

MissingPaths(p) == {path \in MandatoryPaths : Lacks(p, path)}

(***************************************************************************)
(* C1                                                                      *)
(***************************************************************************)
\* C1: field-path law of get_post. When data, post lookup and post result
\* are present and the post lacks exactly one mandatory field (for the
\* author: both the author and the user's display name), get_post returns
\* the malformed-response error naming that field's dotted path; and a Post
\* is returned only when no mandatory field is missing.
C1_FieldPathLaw ==
    (Returned /\ HasPost /\ RawPost.page_url # None) =>
        /\ \A path \in MandatoryPaths :
              MissingPaths(RawPost) = {path} => Failed(MalformattedResponse(path))
        /\ result.tag = "Ok" => MissingPaths(RawPost) = {}

C1_Witness ==
    /\ Returned /\ HasPost /\ RawPost.page_url # None
    /\ MissingPaths(RawPost) = {"post.contents.markdown"}
    /\ Failed(MalformattedResponse("post.contents.markdown"))

(***************************************************************************)
(* C2                                                                      *)
(***************************************************************************)
\* C2: get_post returns NotFound exactly when the envelope parsed, its data
\* is present and its post lookup is absent; absent data gives the
\* malformed-response error naming data, an absent post result the one naming
\* post; get_comments never returns NotFound, and no call to get_post panics.
C2_NotFound ==
    Returned =>
        /\ op = "get_post" =>
              /\ Failed(NotFound) <=> (HasData /\ ~HasLookup)
              /\ (Delivered /\ ~HasData) => Failed(MalformattedResponse("data"))
              /\ (HasLookup /\ ~HasPost) => Failed(MalformattedResponse("post"))
              /\ result.tag # "Panic"
        /\ op = "get_comments" => ~Failed(NotFound)

C2_Witness == Returned /\ op = "get_post" /\ HasData /\ ~HasLookup /\ Failed(NotFound)

(***************************************************************************)
(* C5                                                                      *)
(***************************************************************************)
\* C5 as stated: a post reply that omits the page URL while every mandatory
\* field is present makes get_post return a Post.
C5_OmittedPageUrlReturnsPost ==
    (Returned /\ HasPost /\ RawPost.page_url = None /\ MissingPaths(RawPost) = {})
        => result.tag = "Ok"

\* C5 amended: the mapper has no presence check of the page URL because the
\* typed envelope holds it as a plain String: a post reply whose post result
\* omits the page URL fails to deserialize (the Reqwest error), whatever its
\* other fields, and a returned Post carries upstream's page URL unchanged.
C5_OmittedPageUrlFailsToParse ==
    (Returned /\ op = "get_post") =>
        /\ (HasPost /\ RawPost.page_url = None) => Failed(Reqwest("decode"))
        /\ result.tag = "Ok" =>
              HasPost /\ RawPost.page_url = Some(result.val.page_url)

C5_Witness ==
    /\ Returned /\ HasPost /\ RawPost.page_url = None /\ MissingPaths(RawPost) = {}
    /\ Failed(Reqwest("decode"))

(***************************************************************************)
(* C6                                                                      *)
(***************************************************************************)
\* the order of the steps as the specification lists them
SpecOrder ==
    << "post.contents", "post.author", "post.id", "post.title", "post.posted_at",
       "post.slug", "post.base_score", "post.word_count", "post.contents.markdown",
       "post.html_body" >>

\* the order in which get_post evaluates them
CodeOrder ==
    << "post.contents", "post.id", "post.title", "post.author", "post.posted_at",
       "post.slug", "post.base_score", "post.word_count", "post.contents.markdown",
       "post.html_body" >>

\* the earliest path of the order that the raw post p lacks
Earliest(order, p) ==
    order[CHOOSE i \in DOMAIN order :
            /\ Lacks(p, order[i])
            /\ \A j \in DOMAIN order : Lacks(p, order[j]) => i <= j]

\* get_post reports the error of the earliest violated step: data, post
\* lookup, post result, then the mandatory fields in the given order
FailFast(order) ==
    (Returned /\ op = "get_post" /\ Delivered) =>
        /\ ~HasData => Failed(MalformattedResponse("data"))
        /\ (HasData /\ ~HasLookup) => Failed(NotFound)
        /\ (HasLookup /\ ~HasPost) => Failed(MalformattedResponse("post"))
        /\ (HasPost /\ RawPost.page_url # None /\ MissingPaths(RawPost) # {}) =>
              Failed(MalformattedResponse(Earliest(order, RawPost)))

\* C6 as stated: the earliest violated step in the order data, post lookup,
\* post result, contents, author, then id, title, posted-at, slug, base
\* score, word count, markdown body, HTML body.
C6_FailFastSpecOrder == FailFast(SpecOrder)

\* C6 amended: the earliest violated step in the order data, post lookup,
\* post result, contents, id, title, author, posted-at, slug, base score,
\* word count, markdown body, HTML body: a post lacking both author sources
\* and also its id or title yields the error naming post.id or post.title.
C6_FailFastCodeOrder == FailFast(CodeOrder)

C6_Witness ==
    /\ Returned /\ HasPost /\ RawPost.page_url # None
    /\ {"post.id", "post.author", "post.html_body"} \subseteq MissingPaths(RawPost)
    /\ Failed(MalformattedResponse("post.id"))

(***************************************************************************)
(* C7                                                                      *)
(***************************************************************************)
\* the body parses into the typed envelope of the operation
Parses ==
    /\ reply.readable
    /\ reply.json # None
    /\ (op = "get_post" /\ HasPost) => RawPost.page_url # None

\* C7: for both operations, a request that fails in transport yields the
\* transport error; otherwise a non-success status yields the server error
\* with that status and the body text, or the placeholder when the body
\* cannot be read, whether or not the body would parse; otherwise a body that
\* does not parse yields the deserialization error; the mapper's outcomes
\* come only after a success status and a successful parse.
C7_TransportClassification ==
    Returned =>
        /\ ~reply.sent => Failed(Reqwest("send"))
        /\ (reply.sent /\ ~SuccessStatus) =>
              Failed(ServerError(reply.status,
                        IF reply.readable THEN <<"body", reply.json>>
                        ELSE <<"Error reading response text">>))
        /\ (reply.sent /\ SuccessStatus /\ ~Parses) => Failed(Reqwest("decode"))
        /\ (\/ result.tag \in {"Ok", "Panic"}
            \/ result.val.kind \in {"NotFound", "MalformattedResponse"})
              => (reply.sent /\ SuccessStatus /\ Parses)

C7_Witness ==
    /\ Returned /\ reply.sent /\ ~SuccessStatus /\ Parses
    /\ unwrap(reply.json).data # None
    /\ result.tag = "Err" /\ result.val.kind = "ServerError"
    /\ result.val.detail = <<reply.status, <<"body", reply.json>> >>

(***************************************************************************)
(* The results list of a comments reply.                                   *)
(***************************************************************************)
HasComments ==
    op = "get_comments" /\ HasData /\ unwrap(unwrap(reply.json).data).comments # None
HasResults ==
    HasComments /\ unwrap(unwrap(unwrap(reply.json).data).comments).results # None
Results == unwrap(unwrap(unwrap(unwrap(reply.json).data).comments).results)
Entry(i) == unwrap(Results[i])

\* not deleted upstream, with a non-empty rendered HTML body
Displayable(e) ==
    e.deleted # Some(TRUE) /\ e.html_body # None /\ e.html_body # Some("")

\* the slots that hold an entry, and those whose entry survives filtering
Entries == {i \in 1..Len(Results) : Results[i] # None}
Survivors == {i \in Entries : Displayable(Entry(i))}

\* the entry lacks id, posted_at, base_score, vote_count, page_url or
\* contents.markdown
Incomplete(e) ==
    \/ e.id = None \/ e.posted_at = None \/ e.base_score = None
    \/ e.vote_count = None \/ e.page_url = None
    \/ e.contents = None \/ unwrap(e.contents).markdown = None

\* the last survivor of the results list with the id k
LastWith(k) ==
    CHOOSE i \in Survivors :
        /\ Entry(i).id = Some(k)
        /\ \A j \in Survivors : Entry(j).id = Some(k) => j <= i

\* the author of an entry: the explicit author, else the user's display
\* name, else the default
ResolvedAuthor(e, default) ==
    IF e.author # None THEN unwrap(e.author)
    ELSE IF e.user # None /\ unwrap(e.user).display_name # None
         THEN unwrap(unwrap(e.user).display_name)
    ELSE default

(***************************************************************************)
(* C3                                                                      *)
(***************************************************************************)
\* C3: filtering law of get_comments. Every Comment of a returned mapping
\* has a non-empty content_html and is built from a raw entry that is not
\* deleted and has that HTML body; an entry that is deleted or has an absent
\* or empty HTML body puts no Comment into the mapping.
C3_FilteringLaw ==
    (Returned /\ HasResults /\ result.tag = "Ok") =>
        /\ \A k \in DOMAIN result.val :
              /\ result.val[k].content_html # ""
              /\ \E i \in Survivors :
                    /\ Entry(i).id = Some(k)
                    /\ Entry(i).html_body = Some(result.val[k].content_html)
        /\ \A i \in Entries \ Survivors :
              (\A j \in Survivors : Entry(j).id # Entry(i).id) =>
                  \A k \in DOMAIN result.val : Entry(i).id # Some(k)

C3_Witness ==
    /\ Returned /\ HasResults /\ result.tag = "Ok"
    /\ DOMAIN result.val # {}
    /\ \E i \in Entries \ Survivors :
          /\ Entry(i).id # None
          /\ Entry(i).html_body = Some("")
          /\ unwrap(Entry(i).id) \notin DOMAIN result.val

C8_WholeBatchAbort ==
    (Returned /\ op = "get_comments") =>
        /\ (HasResults /\ \E i \in Survivors : Incomplete(Entry(i))) =>
              result.tag = "Panic"
        /\ (Delivered /\ ~HasData) => Failed(MalformattedResponse("data"))
        /\ (HasData /\ ~HasComments) => Failed(MalformattedResponse("comments"))
        /\ (HasComments /\ ~HasResults) => Failed(MalformattedResponse("comments.results"))
        /\ (result.tag = "Err" /\ result.val.kind = "MalformattedResponse") =>
              result.val.detail \in {<<"data">>, <<"comments">>, <<"comments.results">>}

C8_Witness ==
    /\ Returned /\ HasResults /\ result.tag = "Panic"
    /\ \E i \in Survivors : Entry(i).id = None
    /\ \E i \in Survivors : ~Incomplete(Entry(i))

(***************************************************************************)
(* C9                                                                      *)
(***************************************************************************)
\* C9: filtering precedes field extraction. A null slot, and an entry that
\* is deleted or has an absent or empty HTML body, causes no error and no
\* panic even when it lacks mandatory fields: get_comments panics only for
\* an incomplete survivor, never for an absent HTML body, returns no Error
\* once the results list is there, and returns the empty mapping when the
\* list holds only null slots and filtered entries.
C9_FilterBeforeExtraction ==
    (Returned /\ HasResults) =>
        /\ result.tag # "Err"
        /\ result.tag = "Panic" =>
              /\ \E i \in Survivors : Incomplete(Entry(i))
              /\ result.val # "comment html_body should exist"
        /\ Survivors = {} => (result.tag = "Ok" /\ DOMAIN result.val = {})

C9_Witness ==
    /\ Returned /\ HasResults /\ Survivors = {}
    /\ \E i \in 1..Len(Results) : Results[i] = None
    /\ \E i \in Entries : Incomplete(Entry(i))
    /\ result.tag = "Ok" /\ DOMAIN result.val = {}

(***************************************************************************)
(* C10                                                                     *)
(***************************************************************************)
\* the Comment cm carries the fields of the raw entry e
BuiltFrom(cm, e) ==
    /\ e.id = Some(cm.id)
    /\ cm.parent_comment_id = e.parent_comment_id
    /\ e.posted_at = Some(cm.posted_at)
    /\ e.page_url = Some(cm.page_url)
    /\ e.base_score = Some(cm.base_score)
    /\ e.vote_count = Some(cm.vote_count)
    /\ e.html_body = Some(cm.content_html)
    /\ e.contents # None /\ unwrap(e.contents).markdown = Some(cm.content_markdown)

\* C10: exact content of the get_comments result. The keys of a returned
\* mapping are exactly the ids of the entries that survive filtering, every
\* key is the id of its Comment, a key shared by several survivors maps to
\* the Comment built from the last of them in list order, and
\* parent_comment_id is copied unchanged.
C10_ExactContent ==
    (Returned /\ HasResults /\ result.tag = "Ok") =>
        /\ \A i \in Survivors : Entry(i).id # None
        /\ DOMAIN result.val = {unwrap(Entry(i).id) : i \in Survivors}
        /\ \A k \in DOMAIN result.val :
              /\ result.val[k].id = k
              /\ BuiltFrom(result.val[k], Entry(LastWith(k)))

C10_Witness ==
    /\ Returned /\ HasResults /\ result.tag = "Ok"
    /\ \E i, j \in Survivors :
          /\ i < j
          /\ Entry(i).id = Entry(j).id
          /\ Entry(i).parent_comment_id # None
          /\ Entry(j).parent_comment_id = None
          /\ result.val[unwrap(Entry(j).id)].parent_comment_id = None
    /\ Len(Results) = 2

====
